---- MODULE Spec2Model ----
(***************************************************************************)
(* AdapterClient (src/src/client.ts): the retrying HTTP client of the      *)
(* agistry SDK.  One logical call, callAdapter, is a loop of network       *)
(* attempts with exponential backoff; batchCallAdapters fans calls out     *)
(* with Promise.all.  Every asynchronous continuation of the code (the     *)
(* part between two awaits) is one action.                                 *)
(***************************************************************************)
EXTENDS Integers, Sequences, FiniteSets, TLC

\* the client and its promises
VARIABLES config, call, batch

\* the input and the context object the callers of this run pass
VARIABLES args

\* the orchestrator's sequential pipeline, and the health monitor's timer
VARIABLES pipeline, monitor

\* what an observer with a clock sees of them: the time, the start of each
\* attempt in flight, and the circuit breaker the design keeps for each id
VARIABLES now, attemptStart, circuit, gate

program == <<config, call, batch, args>>

observer == <<now, attemptStart, circuit, gate>>

others == <<now, attemptStart, circuit, gate, pipeline, monitor>>

vars == <<config, call, batch, args, now, attemptStart, circuit, gate, pipeline, monitor>>

-----------------------------------------------------------------------------
(* Bounds of the model *)

\* number of promise slots: concurrent callAdapter invocations, and the
\* longest id list handed to batchCallAdapters
MaxCalls == 2

\* the clock stops after this many ticks
MaxTicks == 2

Calls == 1..MaxCalls

-----------------------------------------------------------------------------
(* Types and collaborators *)

\* the registry's keys (adapterRegistry.ts is outside src/; the ids are those
\* the README uses)
adapterRegistry == {"pdf-text-extractor", "slack-sender"}

isValidAdapterId(id) == id \in adapterRegistry

\* ids a caller may pass at run time
CallerIds == adapterRegistry \cup {"not-a-real-adapter"}

\* types.ts: enum CircuitState
CircuitState == [CLOSED |-> "closed", OPEN |-> "open", HALF_OPEN |-> "half_open"]

\* client.ts:7-12
defaultRetryConfig ==
    [maxAttempts |-> 3, baseDelay |-> 1000, maxDelay |-> 10000, backoffMultiplier |-> 2]

\* client.ts:17
defaultTimeout == 30000

\* the values of config.retry (Partial<RetryConfig>) a constructor call may
\* carry: the keys it sets, and their values
Override(keys, vals) == [keys |-> keys, vals |-> vals]

RetryOverrides ==
    { Override({}, defaultRetryConfig),
      Override({"maxAttempts"}, [defaultRetryConfig EXCEPT !.maxAttempts = -1]),
      Override({"maxAttempts"}, [defaultRetryConfig EXCEPT !.maxAttempts = 0]),
      Override({"maxAttempts"}, [defaultRetryConfig EXCEPT !.maxAttempts = 1]),
      Override({"maxAttempts"}, [defaultRetryConfig EXCEPT !.maxAttempts = 2]),
      Override({"maxAttempts"}, [defaultRetryConfig EXCEPT !.maxAttempts = 5]),
      Override({"maxAttempts", "baseDelay", "maxDelay", "backoffMultiplier"},
               [maxAttempts |-> 4, baseDelay |-> 3000, maxDelay |-> 8000,
                backoffMultiplier |-> 3]) }

\* { ...this.defaultRetryConfig, ...this.config.retry }
MergeRetry(override) ==
    [k \in DOMAIN defaultRetryConfig |->
        IF k \in override.keys THEN override.vals[k] ELSE defaultRetryConfig[k]]

\* constructor: { timeout: 30000, ...config }
Constructor(retry) == [timeout |-> defaultTimeout, retry |-> retry]

\* types.ts: AdapterContext, a mapping given as its set of <<key, value>>
\* pairs; an input is <<>> for null and <<text>> for a string
CallerArgs ==
    { [input |-> <<>>, context |-> {}],
      [input |-> <<"Analyze this contract">>, context |-> {<<"userId", "u1">>}] }

\* client.ts:61-65, 73: JSON.stringify(request), the body of the POST
Wire(adapterId, input, context) ==
    [adapterId |-> adapterId,
     input     |-> IF input = <<>> THEN "null" ELSE input[1],
     context   |-> { <<kv[1], kv[2]>> : kv \in context }]

-----------------------------------------------------------------------------
(* What the network can answer to one fetch *)

NetworkError == [kind |-> "reject", status |-> 0, statusText |-> "", body |-> "none"]

HttpResponse(status, statusText, body) ==
    [kind |-> "response", status |-> status, statusText |-> statusText, body |-> body]

FetchOutcomes ==
    { NetworkError,
      HttpResponse(200, "OK", "ok_json"),
      HttpResponse(200, "OK", "error_json"),
      HttpResponse(200, "", "not_json"),
      HttpResponse(304, "Not Modified", "none"),
      HttpResponse(400, "Bad Request", "error_json"),
      HttpResponse(499, "", "none"),
      HttpResponse(500, "Internal Server Error", "not_json") }

\* a test that takes every response for a success
ResponseOk_IgnoresStatus(r) == r.kind = "response"

\* Response.ok
ResponseOk(r) == r.status >= 200 /\ r.status <= 299

\* an absent optional field of AdapterResponse; `data`, when present, is
\* the sequence of its <<key, value>> pairs
Absent == <<>>

\* no AdapterResponse (the promise has not resolved)
NoResponse == [status |-> "none", output |-> Absent, data |-> Absent, error |-> Absent]

\* Response.json(): the parsed body, or a SyntaxError
JsonParse(body) ==
    CASE body = "ok_json" ->
            [parsed |-> TRUE,
             value |-> [status |-> "ok", output |-> <<"extracted text">>,
                        data |-> << <<"pages", "3">>, <<"userId", "u2">> >>,
                        error |-> Absent]]
      [] body = "error_json" ->
            [parsed |-> TRUE,
             value |-> [status |-> "error", output |-> Absent, data |-> Absent,
                        error |-> <<"adapter refused">>]]
      [] OTHER ->
            [parsed |-> FALSE, value |-> NoResponse]

\* a message is the sequence of the pieces of its template string
MessageIsEmpty(m) == \A i \in 1..Len(m) : m[i] = ""

\* the values `lastError` takes; status 0 stands for an undefined .status
Undefined == [isError |-> FALSE, status |-> 0, message |-> <<>>]

MkError(status, message) == [isError |-> TRUE, status |-> status, message |-> message]

\* client.ts:77-78
HttpError(adapterId, r) ==
    MkError(r.status, <<"Adapter ", adapterId, " failed: ", r.statusText>>)

\* the TypeError fetch rejects with
FetchError == MkError(0, <<"fetch failed">>)

\* the SyntaxError response.json() rejects with
ParseError == MkError(0, <<"Unexpected token < in JSON">>)

-----------------------------------------------------------------------------
(* AdapterClient's private helpers *)

RECURSIVE Pow(_, _)
\* Math.pow on the integers
Pow(b, e) == IF e <= 0 THEN 1 ELSE b * Pow(b, e - 1)

Min(a, b) == IF a <= b THEN a ELSE b

\* getRetryDelay without its ceiling
getRetryDelay_NoCap(attempt, retryConfig) ==
    retryConfig.baseDelay * Pow(retryConfig.backoffMultiplier, attempt - 1)

\* client.ts:32-35
getRetryDelay(attempt, retryConfig) ==
    LET delay == retryConfig.baseDelay * Pow(retryConfig.backoffMultiplier, attempt - 1)
    IN  Min(delay, retryConfig.maxDelay)

\* shouldRetry without the test of the status
shouldRetry_Retry4xx(error, attempt, maxAttempts) ==
    IF attempt >= maxAttempts THEN FALSE ELSE TRUE

\* client.ts:37-45
shouldRetry(error, attempt, maxAttempts) ==
    IF attempt >= maxAttempts THEN FALSE
    ELSE IF error.status >= 400 /\ error.status < 500 THEN FALSE
    ELSE TRUE

\* client.ts:99-102
\* a final return that reads the message of whatever lastError holds
ErrorResponse_NoFallback(lastError) ==
    [status |-> "error", output |-> Absent, data |-> Absent, error |-> lastError.message]

ErrorResponse(lastError) ==
    [status |-> "error",
     output |-> Absent,
     data   |-> Absent,
     error  |-> IF lastError.isError THEN lastError.message
                ELSE <<"Unknown error occurred">>]

-----------------------------------------------------------------------------
(* One invocation of callAdapter: the promise it returned and the locals    *)
(* of its frame.  The fields from `attempts` to `fromBody`, `sent` (the     *)
(* bodies it has posted) and `observed` (the outcome of each attempt)       *)
(* record what the invocation has done so far; `passed` is what the caller  *)
(* passed and `context` is the caller's object as it is now.                *)

IdleCall ==
    [pc |-> "idle", adapterId |-> "none", attempt |-> 0, lastError |-> Undefined,
     body |-> "none", result |-> NoResponse, raised |-> Absent, batchIdx |-> 0,
     attempts |-> 0, sleeps |-> <<>>, first4xx |-> FALSE, allRetryable |-> TRUE,
     fromBody |-> FALSE,
     input |-> <<>>, context |-> {}, passed |-> [input |-> <<>>, context |-> {}],
     sent |-> {}, observed |-> <<>>]

InFlight(rec) == rec.pc \in {"fetch", "json"}

Running(rec) == rec.pc \in {"fetch", "json", "sleep"}

Settled(rec) == rec.pc \in {"returned", "raised"}

\* Promise.all (client.ts:111): no batch is awaited.  `order` records the
\* order in which the elements fulfilled
NoBatch ==
    [state |-> "none", ids |-> <<>>, values |-> <<>>, filled |-> {},
     result |-> <<>>, reason |-> Absent, order |-> <<>>]

\* a collection of the results in the order of their completion
PromiseAllFulfil_CompletionOrder(b, index, value) ==
    LET values == [b.values EXCEPT ![Cardinality(b.filled) + 1] = value]
        filled == b.filled \cup {index}
        order  == Append(b.order, index)
    IN  IF b.state # "pending" THEN b
        ELSE IF filled = 1..Len(b.ids)
        THEN [b EXCEPT !.values = values, !.filled = filled, !.order = order,
                       !.state = "fulfilled", !.result = values]
        ELSE [b EXCEPT !.values = values, !.filled = filled, !.order = order]

\* Promise.all: the element at `index` fulfilled with `value`
PromiseAllFulfil(b, index, value) ==
    LET values == [b.values EXCEPT ![index] = value]
        filled == b.filled \cup {index}
        order  == Append(b.order, index)
    IN  IF b.state # "pending" THEN b
        ELSE IF filled = 1..Len(b.ids)
        THEN [b EXCEPT !.values = values, !.filled = filled, !.order = order,
                       !.state = "fulfilled", !.result = values]
        ELSE [b EXCEPT !.values = values, !.filled = filled, !.order = order]

\* Promise.all: an element rejected
PromiseAllReject(b, reason) ==
    IF b.state # "pending" THEN b
    ELSE [b EXCEPT !.state = "rejected", !.reason = reason]

\* the promises as one value, so that the synchronous parts of several
\* invocations (batchCallAdapters' map) compose
State(c, b) == [call |-> c, batch |-> b]

\* the promise of invocation c settles as rec says, and its reactions run
Settle(S, c, rec) ==
    LET b == IF rec.batchIdx = 0 THEN S.batch
             ELSE IF rec.pc = "raised" THEN PromiseAllReject(S.batch, rec.raised)
             ELSE PromiseAllFulfil(S.batch, rec.batchIdx, rec.result)
    IN  State([S.call EXCEPT ![c] = rec], b)

\* client.ts:82 and 99-102: return
Return(S, c, rec, response) ==
    Settle(S, c, [rec EXCEPT !.pc = "returned", !.result = response])

\* client.ts:53: throw
Throw(S, c, rec, message) ==
    Settle(S, c, [rec EXCEPT !.pc = "raised", !.raised = message])

\* a loop that notes in the context that the call was attempted
LoopHead_StampsContext(S, c, rec, rc) ==
    LET stamped == rec.context \cup {<<"attempted", "yes">>}
    IN  IF rec.attempt <= rc.maxAttempts
        THEN State([S.call EXCEPT ![c] =
                       [rec EXCEPT !.pc = "fetch", !.attempts = rec.attempts + 1,
                                   !.context = stamped,
                                   !.sent = rec.sent \cup
                                       {Wire(rec.adapterId, rec.input, stamped)}]],
                   S.batch)
        ELSE Return(S, c, rec, ErrorResponse(rec.lastError))

\* the loop test with < for <=
LoopHead_OffByOne(S, c, rec, rc) ==
    IF rec.attempt < rc.maxAttempts
    THEN State([S.call EXCEPT ![c] =
                   [rec EXCEPT !.pc = "fetch", !.attempts = rec.attempts + 1,
                               !.sent = rec.sent \cup
                                   {Wire(rec.adapterId, rec.input, rec.context)}]],
               S.batch)
    ELSE Return(S, c, rec, ErrorResponse(rec.lastError))

\* client.ts:59-74: the loop test, and the fetch of one attempt
LoopHead(S, c, rec, rc) ==
    IF rec.attempt <= rc.maxAttempts
    THEN State([S.call EXCEPT ![c] =
                   [rec EXCEPT !.pc = "fetch", !.attempts = rec.attempts + 1,
                               !.sent = rec.sent \cup
                                   {Wire(rec.adapterId, rec.input, rec.context)}]],
               S.batch)
    ELSE Return(S, c, rec, ErrorResponse(rec.lastError))

\* a catch block that rethrows the error it gives up on
Catch_Rethrow(S, c, rec, error, rc) ==
    LET r1 == [rec EXCEPT !.lastError = error]
    IN  IF ~shouldRetry(error, rec.attempt, rc.maxAttempts)
        THEN Throw(S, c, r1, error.message)
        ELSE State([S.call EXCEPT ![c] =
                       [r1 EXCEPT !.pc = "sleep",
                                  !.sleeps = Append(r1.sleeps,
                                                    getRetryDelay(rec.attempt, rc))]],
                   S.batch)

\* a catch block that sleeps after every failed attempt
Catch_AlwaysSleeps(S, c, rec, error, rc) ==
    State([S.call EXCEPT ![c] =
              [rec EXCEPT !.lastError = error,
                          !.pc = "sleep",
                          !.sleeps = Append(rec.sleeps, getRetryDelay(rec.attempt, rc))]],
          S.batch)

\* a catch block that keeps the first error it caught
Catch_KeepFirstError(S, c, rec, error, rc) ==
    LET r1 == IF rec.lastError.isError THEN rec ELSE [rec EXCEPT !.lastError = error]
    IN  IF ~shouldRetry(error, rec.attempt, rc.maxAttempts)
        THEN Return(S, c, r1, ErrorResponse(r1.lastError))
        ELSE IF rec.attempt < rc.maxAttempts
        THEN State([S.call EXCEPT ![c] =
                       [r1 EXCEPT !.pc = "sleep",
                                  !.sleeps = Append(r1.sleeps,
                                                    getRetryDelay(rec.attempt, rc))]],
                   S.batch)
        ELSE LoopHead(S, c, [r1 EXCEPT !.attempt = rec.attempt + 1], rc)

\* client.ts:83-95: the catch block
Catch(S, c, rec, error, rc) ==
    LET r1 == [rec EXCEPT !.lastError = error]
    IN  IF ~shouldRetry(error, rec.attempt, rc.maxAttempts)
        THEN Return(S, c, r1, ErrorResponse(error))
        ELSE IF rec.attempt < rc.maxAttempts
        THEN State([S.call EXCEPT ![c] =
                       [r1 EXCEPT !.pc = "sleep",
                                  !.sleeps = Append(r1.sleeps,
                                                    getRetryDelay(rec.attempt, rc))]],
                   S.batch)
        ELSE LoopHead(S, c, [r1 EXCEPT !.attempt = rec.attempt + 1], rc)

\* callAdapter without the test of the id
Invoke_NoValidation(S, c, adapterId, input, context, batchIdx, rc) ==
    LoopHead(S, c, [IdleCall EXCEPT !.adapterId = adapterId, !.batchIdx = batchIdx,
                                    !.input = input, !.context = context,
                                    !.passed = [input |-> input, context |-> context],
                                    !.attempt = 1], rc)

\* client.ts:47-59: callAdapter up to its first await
Invoke(S, c, adapterId, input, context, batchIdx, rc) ==
    LET rec == [IdleCall EXCEPT !.adapterId = adapterId, !.batchIdx = batchIdx,
                                !.input = input, !.context = context,
                                !.passed = [input |-> input, context |-> context],
                                !.attempt = 1]
    IN  IF ~isValidAdapterId(adapterId)
        THEN Throw(S, c, rec, <<"Invalid adapter ID: ", adapterId>>)
        ELSE LoopHead(S, c, rec, rc)

-----------------------------------------------------------------------------
(* The operations *)

RetryConfig == MergeRetry(config.retry)

Current == State(call, batch)

Becomes(S) ==
    /\ call' = S.call
    /\ batch' = S.batch
    /\ UNCHANGED <<config, args>>

\* client.ts:47-74: a caller invokes callAdapter(adapterId, input, context)
CallAdapter(c, adapterId) ==
    /\ call[c].pc = "idle"
    /\ Becomes(Invoke(Current, c, adapterId, args.input, args.context, 0, RetryConfig))

\* the caller of callAdapter has taken the outcome of invocation c
Consume(c) ==
    /\ Settled(call[c])
    /\ call[c].batchIdx = 0
    /\ Becomes(State([call EXCEPT ![c] = IdleCall], batch))

\* what an attempt's outcome adds to the record of the invocation
Observe(rec, o) ==
    [rec EXCEPT !.observed = Append(rec.observed, o),
                !.first4xx = IF rec.attempts = 1
                             THEN (o.status >= 400 /\ o.status <= 499)
                             ELSE rec.first4xx,
                !.allRetryable =
                    /\ rec.allRetryable
                    /\ o.kind = "reject" \/ o.status < 200 \/ o.status > 299
                    /\ ~(o.status >= 400 /\ o.status <= 499)]

\* client.ts:67-80: the fetch of invocation c settles with outcome o
FetchSettles(c, o) ==
    LET rec == Observe(call[c], o)
    IN  /\ call[c].pc = "fetch"
        /\ IF o.kind = "reject"
           THEN Becomes(Catch(Current, c, rec, FetchError, RetryConfig))
           ELSE IF ~ResponseOk(o)
           THEN Becomes(Catch(Current, c, rec, HttpError(rec.adapterId, o), RetryConfig))
           ELSE Becomes(State([call EXCEPT ![c] = [rec EXCEPT !.pc = "json",
                                                              !.body = o.body]],
                              batch))

\* a continuation that takes a body of status "error" for a failed attempt
JsonSettles_RetryAppError(c) ==
    LET rec == call[c]
        p   == JsonParse(rec.body)
    IN  /\ rec.pc = "json"
        /\ IF p.parsed /\ p.value.status # "error"
           THEN Becomes(Return(Current, c,
                               [rec EXCEPT !.fromBody = TRUE, !.allRetryable = FALSE],
                               p.value))
           ELSE IF p.parsed
           THEN Becomes(Catch(Current, c, rec, MkError(0, p.value.error), RetryConfig))
           ELSE Becomes(Catch(Current, c, rec, ParseError, RetryConfig))

\* client.ts:82: response.json() of invocation c settles
JsonSettles(c) ==
    LET rec == call[c]
        p   == JsonParse(rec.body)
    IN  /\ rec.pc = "json"
        /\ IF p.parsed
           THEN Becomes(Return(Current, c,
                               [rec EXCEPT !.fromBody = TRUE, !.allRetryable = FALSE],
                               p.value))
           ELSE Becomes(Catch(Current, c, rec, ParseError, RetryConfig))

\* client.ts:28-30, 93, 59: the timer of sleep(delay) fires, attempt++
Wake(c) ==
    LET rec == call[c]
    IN  /\ rec.pc = "sleep"
        /\ Becomes(LoopHead(Current, c, [rec EXCEPT !.attempt = rec.attempt + 1],
                            RetryConfig))

RECURSIVE InvokeAll(_, _, _, _)
\* adapterIds.map(adapterId => this.callAdapter(adapterId, input, context))
InvokeAll(S, adapterIds, i, rc) ==
    IF i > Len(adapterIds) THEN S
    ELSE InvokeAll(Invoke(S, i, adapterIds[i], args.input, args.context, i, rc),
                   adapterIds, i + 1, rc)

\* Promise.all(promises) before any of them has settled
PromiseAll(adapterIds) ==
    [NoBatch EXCEPT !.state = IF Len(adapterIds) = 0 THEN "fulfilled" ELSE "pending",
                    !.ids = adapterIds,
                    !.values = [i \in 1..Len(adapterIds) |-> NoResponse]]

\* client.ts:106-114
BatchCallAdapters(adapterIds) ==
    /\ batch.state = "none"
    /\ \A i \in 1..Len(adapterIds) : call[i].pc = "idle"
    /\ Becomes(InvokeAll(State(call, PromiseAll(adapterIds)), adapterIds, 1, RetryConfig))

\* the caller has taken the outcome of the batch, and its calls are over
BatchConsumed ==
    /\ batch.state \in {"fulfilled", "rejected"}
    /\ \A c \in Calls : call[c].batchIdx # 0 => Settled(call[c])
    /\ Becomes(State([c \in Calls |-> IF call[c].batchIdx # 0 THEN IdleCall ELSE call[c]],
                     NoBatch))

-----------------------------------------------------------------------------
(* The orchestrator's sequential pipelines.  executor.ts is not among the   *)
(* sources: runBeforeLLM and runAfterLLM are the design's (spec 4.5, 7),    *)
(* run over callAdapter in the first caller's slot.  `invoked` and          *)
(* `responses` record the steps taken; `callerContext` is the object the    *)
(* caller passed, as it is now.                                             *)

NoPipeline ==
    [state |-> "none", kind |-> "none", ids |-> <<>>, step |-> 0,
     invoked |-> <<>>, responses |-> <<>>,
     prompt |-> <<>>, context |-> {}, callerContext |-> {}, error |-> Absent]

\* the slot the pipeline's steps run in
PipelineSlot == CHOOSE c \in Calls : \A d \in Calls : c <= d

\* a pipeline that carries on whatever a step answers
StepFails_Never(response) == FALSE

\* a step that answers status "error" is fatal to the pipeline
StepFails(response) == response.status = "error"

\* context and the step's data in a new object, the data's keys overriding
Merge(context, data) ==
    LET new == { data[i] : i \in 1..Len(data) }
    IN  { kv \in context : \A n \in new : n[1] # kv[1] } \cup new

\* runBeforeLLM chains the running prompt, runAfterLLM passes no input
StepInput(kind, prompt) == IF kind = "before" THEN prompt ELSE <<>>

\* runBeforeLLM(input, adapterIds, context) or runAfterLLM(context, adapterIds)
RunPipeline(kind, adapterIds) ==
    LET p == [NoPipeline EXCEPT !.kind = kind, !.ids = adapterIds,
                                !.prompt = StepInput(kind, args.input),
                                !.context = Merge(args.context, <<>>),
                                !.callerContext = args.context]
    IN  /\ pipeline.state = "none"
        /\ batch.state = "none"
        /\ \A c \in Calls : call[c].pc = "idle"
        /\ IF adapterIds = <<>>
           THEN /\ pipeline' = [p EXCEPT !.state = "done"]
                /\ UNCHANGED program
           ELSE /\ pipeline' = [p EXCEPT !.state = "running", !.step = 1,
                                         !.invoked = <<adapterIds[1]>>]
                /\ Becomes(Invoke(Current, PipelineSlot, adapterIds[1],
                                  p.prompt, p.context, 0, RetryConfig))

\* the call of the current step has settled: abort, finish, or go on
PipelineStep ==
    LET p    == pipeline
        rec  == call[PipelineSlot]
        r    == rec.result
        free == State([call EXCEPT ![PipelineSlot] = IdleCall], batch)
        p1   == [p EXCEPT !.responses = Append(p.responses, r)]
        p2   == [p1 EXCEPT !.prompt = IF p.kind = "before" /\ r.output # Absent
                                      THEN r.output ELSE p.prompt,
                           !.context = Merge(p.context, r.data)]
    IN  /\ p.state = "running"
        /\ Settled(rec)
        /\ IF rec.pc = "raised"
           THEN /\ pipeline' = [p EXCEPT !.state = "failed", !.error = rec.raised]
                /\ Becomes(free)
           ELSE IF StepFails(r)
           THEN /\ pipeline' = [p1 EXCEPT !.state = "failed", !.error = r.error]
                /\ Becomes(free)
           ELSE IF p.step = Len(p.ids)
           THEN /\ pipeline' = [p2 EXCEPT !.state = "done"]
                /\ Becomes(free)
           ELSE /\ pipeline' = [p2 EXCEPT !.step = p.step + 1,
                                          !.invoked = Append(p.invoked, p.ids[p.step + 1])]
                /\ Becomes(Invoke(free, PipelineSlot, p.ids[p.step + 1],
                                  StepInput(p.kind, p2.prompt), p2.context,
                                  0, RetryConfig))

\* the caller has taken { prompt, context } or the error
PipelineConsumed ==
    /\ pipeline.state \in {"done", "failed"}
    /\ pipeline' = NoPipeline
    /\ UNCHANGED program

-----------------------------------------------------------------------------
(* The health monitor.  healthManager.ts is not among the sources: the      *)
(* timer is the design's (spec 4.4, 5, 9), a single cancellable task; the   *)
(* client's constructor, startHealthMonitoring and stopHealthMonitoring     *)
(* forward to it.  `timers` counts the live interval timers, `handle` says  *)
(* the manager holds one; `started`, `everStarted`, `lastOp`, `probes` and  *)
(* `stray` record what was asked and what ticked.                           *)

NoMonitor ==
    [timers |-> 0, handle |-> FALSE, started |-> FALSE, everStarted |-> FALSE,
     lastOp |-> "none", probes |-> 0, stray |-> FALSE]

\* a start that leaves the timer of an earlier start running
StartMonitoring_Leaky(m) ==
    [m EXCEPT !.timers = Min(m.timers + 1, 2), !.handle = TRUE]

\* HealthManager.startMonitoring: the one timer, replaced if already set
StartMonitoring(m) ==
    [m EXCEPT !.timers = 1, !.handle = TRUE]

\* HealthManager.stopMonitoring: cancel the timer held, if any
StopMonitoring(m) ==
    IF m.handle THEN [m EXCEPT !.timers = m.timers - 1, !.handle = FALSE] ELSE m

\* client.ts:23-25: the constructor starts the monitor when healthCheck.enabled
ConstructMonitor(enabled) ==
    IF enabled
    THEN [StartMonitoring(NoMonitor) EXCEPT !.started = TRUE, !.everStarted = TRUE]
    ELSE NoMonitor

\* client.ts:125-127
StartHealthMonitoring ==
    /\ monitor' = [StartMonitoring(monitor) EXCEPT !.started = TRUE,
                                                   !.everStarted = TRUE,
                                                   !.lastOp = "start"]
    /\ UNCHANGED <<program, pipeline>>

\* client.ts:129-131
StopHealthMonitoring ==
    /\ monitor' = [StopMonitoring(monitor) EXCEPT !.started = FALSE, !.lastOp = "stop"]
    /\ UNCHANGED <<program, pipeline>>

\* a timer fires: one recurring probe
HealthTick ==
    /\ monitor.timers > 0
    /\ monitor.probes < MaxTicks
    /\ monitor' = [monitor EXCEPT !.probes = monitor.probes + 1,
                                  !.lastOp = "tick",
                                  !.stray = monitor.stray \/ ~monitor.started]
    /\ UNCHANGED <<program, pipeline>>

\* client.ts:120-123: checkHealth(), one probe on demand
CheckHealth ==
    /\ monitor' = [monitor EXCEPT !.lastOp = "check"]
    /\ UNCHANGED <<program, pipeline>>

-----------------------------------------------------------------------------
(* The observer.  No code under src/ reads a clock or keeps a circuit       *)
(* breaker: types.ts declares CircuitBreakerState, and the design (spec     *)
(* 4.3) says how it moves.  The observer keeps that breaker for each id,    *)
(* feeds it the outcome of every call, and notes the time at which each     *)
(* attempt started.                                                         *)

failureThreshold == 3

cooldown == 20000

\* one tick of the clock, in milliseconds: no sleep outlasts a tick
TickMs == 2 * defaultRetryConfig.maxDelay

\* types.ts: interface CircuitBreakerState
InitialCircuit ==
    [state |-> CircuitState.CLOSED, failures |-> 0, lastFailureTime |-> 0, successes |-> 0]

\* OPEN, and the cooldown has not elapsed: the design rejects the call
RejectsCalls(cb, t) ==
    cb.state = CircuitState.OPEN /\ t - cb.lastFailureTime < cooldown

\* a call arrives: after the cooldown an OPEN breaker admits it as the trial
CircuitOnCall(cb, t) ==
    IF cb.state = CircuitState.OPEN /\ t - cb.lastFailureTime >= cooldown
    THEN [cb EXCEPT !.state = CircuitState.HALF_OPEN]
    ELSE cb

CircuitOnSuccess(cb) ==
    [cb EXCEPT !.state = CircuitState.CLOSED, !.failures = 0, !.successes = 0]

CircuitOnFailure(cb, t) ==
    IF cb.state = CircuitState.HALF_OPEN
    THEN [cb EXCEPT !.state = CircuitState.OPEN, !.lastFailureTime = t]
    ELSE IF cb.state = CircuitState.CLOSED /\ cb.failures + 1 >= failureThreshold
    THEN [cb EXCEPT !.state = CircuitState.OPEN, !.failures = failureThreshold,
                    !.lastFailureTime = t]
    ELSE IF cb.state = CircuitState.CLOSED
    THEN [cb EXCEPT !.failures = cb.failures + 1]
    ELSE cb

\* `trial`: the call found the breaker HALF_OPEN, or took it there, and runs
NoGate == [atCall |-> FALSE, atAttempt |-> FALSE, trial |-> FALSE]

RECURSIVE Feed(_, _, _, _, _)
\* the breakers and gates after a step that took the invocations from `old`
\* to `new` at time t, slot by slot from c on
Feed(acc, old, new, c, t) ==
    IF c > MaxCalls THEN acc
    ELSE
      LET id       == new[c].adapterId
          started  == old[c].pc = "idle" /\ new[c].pc # "idle"
          attempted == new[c].attempts > old[c].attempts
          finished == old[c].pc # "returned" /\ new[c].pc = "returned"
          g        == acc.gate[c]
      IN  IF ~isValidAdapterId(id)
          THEN Feed([acc EXCEPT !.gate[c] = NoGate], old, new, c + 1, t)
          ELSE
            LET cb0     == acc.circuit[id]
                rejects == RejectsCalls(cb0, t)
                cb1     == IF started THEN CircuitOnCall(cb0, t) ELSE cb0
                cb2     == IF ~finished THEN cb1
                           ELSE IF new[c].fromBody THEN CircuitOnSuccess(cb1)
                           ELSE CircuitOnFailure(cb1, t)
                g2      == [atCall    |-> IF started THEN rejects ELSE g.atCall,
                            atAttempt |-> IF attempted THEN rejects
                                          ELSE InFlight(new[c]) /\ g.atAttempt,
                            trial     |-> IF started
                                          THEN Running(new[c])
                                               /\ cb1.state = CircuitState.HALF_OPEN
                                          ELSE Running(new[c]) /\ g.trial]
            IN  Feed([acc EXCEPT !.circuit[id] = cb2, !.gate[c] = g2],
                     old, new, c + 1, t)

\* the observer follows a step of the program
Watch ==
    LET acc == Feed([circuit |-> circuit, gate |-> gate], call, call', 1, now)
    IN  /\ circuit' = acc.circuit
        /\ gate' = acc.gate
        /\ attemptStart' =
              [c \in Calls |->
                  IF call'[c].attempts > call[c].attempts THEN now
                  ELSE IF InFlight(call'[c]) THEN attemptStart[c]
                  ELSE 0]
        /\ now' = now
        /\ UNCHANGED <<pipeline, monitor>>

\* time passes
Tick ==
    /\ now < MaxTicks * TickMs
    /\ now' = now + TickMs
    /\ UNCHANGED <<program, attemptStart, circuit, gate, pipeline, monitor>>

-----------------------------------------------------------------------------
(* Specifications *)

InitObserver ==
    /\ now = 0
    /\ attemptStart = [c \in Calls |-> 0]
    /\ circuit = [id \in adapterRegistry |-> InitialCircuit]
    /\ gate = [c \in Calls |-> NoGate]

InitProgram(overrides, callerArgs) ==
    /\ config \in { Constructor(r) : r \in overrides }
    /\ args \in callerArgs
    /\ call = [c \in Calls |-> IdleCall]
    /\ batch = NoBatch

\* the first caller's slot
Caller == CHOOSE c \in Calls : \A d \in Calls : c <= d

\* one caller at a time, every configuration, every answer of the network
InitOrchestration ==
    /\ pipeline = NoPipeline
    /\ monitor = NoMonitor

InitCall == InitProgram(RetryOverrides, CallerArgs) /\ InitObserver /\ InitOrchestration

NextCall ==
    \/ \E id \in CallerIds : CallAdapter(Caller, id) /\ UNCHANGED others
    \/ \E o \in FetchOutcomes : FetchSettles(Caller, o) /\ UNCHANGED others
    \/ JsonSettles(Caller) /\ UNCHANGED others
    \/ Wake(Caller) /\ UNCHANGED others
    \/ Consume(Caller) /\ UNCHANGED others

SpecCall == InitCall /\ [][NextCall]_vars

\* concurrent callers and batches
ConcurrentOverrides ==
    { r \in RetryOverrides : r.keys = {"maxAttempts"} /\ r.vals.maxAttempts \in 1..2 }

ConcurrentOutcomes ==
    { o \in FetchOutcomes :
        \/ o.kind = "reject"
        \/ o.status = 200 /\ o.body \in {"ok_json", "not_json"}
        \/ o.status = 400 }

IdLists == UNION { [1..n -> CallerIds] : n \in 0..MaxCalls }

ConcurrentArgs == { a \in CallerArgs : a.context # {} }

Init == InitProgram(ConcurrentOverrides, ConcurrentArgs) /\ InitObserver /\ InitOrchestration

Next ==
    \/ \E c \in Calls, id \in CallerIds : CallAdapter(c, id) /\ UNCHANGED others
    \/ \E c \in Calls, o \in ConcurrentOutcomes : FetchSettles(c, o) /\ UNCHANGED others
    \/ \E c \in Calls : JsonSettles(c) /\ UNCHANGED others
    \/ \E c \in Calls : Wake(c) /\ UNCHANGED others
    \/ \E c \in Calls : Consume(c) /\ UNCHANGED others
    \/ \E ids \in IdLists : BatchCallAdapters(ids) /\ UNCHANGED others
    \/ BatchConsumed /\ UNCHANGED others

Spec == Init /\ [][Next]_vars

\* the same program under the observer's eyes, calling one adapter
ObservedIds == {"slack-sender", "not-a-real-adapter"}

ObservedOutcomes == { o \in ConcurrentOutcomes : o.body # "not_json" }

ObservedLists == UNION { [1..n -> ObservedIds] : n \in 0..MaxCalls }

NextObserved ==
    \/ \E c \in Calls, id \in ObservedIds : CallAdapter(c, id) /\ Watch
    \/ \E c \in Calls, o \in ObservedOutcomes : FetchSettles(c, o) /\ Watch
    \/ \E c \in Calls : JsonSettles(c) /\ Watch
    \/ \E c \in Calls : Wake(c) /\ Watch
    \/ \E c \in Calls : Consume(c) /\ Watch
    \/ \E ids \in ObservedLists : BatchCallAdapters(ids) /\ Watch
    \/ BatchConsumed /\ Watch
    \/ Tick

SpecObserved == Init /\ [][NextObserved]_vars

\* the same program under an orchestrator: a pipeline runs when nothing
\* else does, and the adapter may answer 200 with a body of status "error"
PipelineKinds == {"before", "after"}

PipelineOutcomes == ConcurrentOutcomes \cup {HttpResponse(200, "OK", "error_json")}

NextPipeline ==
    \/ /\ pipeline.state = "none"
       /\ \E c \in Calls, id \in CallerIds : CallAdapter(c, id)
       /\ UNCHANGED others
    \/ \E c \in Calls, o \in PipelineOutcomes : FetchSettles(c, o) /\ UNCHANGED others
    \/ \E c \in Calls : JsonSettles(c) /\ UNCHANGED others
    \/ \E c \in Calls : Wake(c) /\ UNCHANGED others
    \/ /\ pipeline.state = "none"
       /\ \E c \in Calls : Consume(c)
       /\ UNCHANGED others
    \/ /\ pipeline.state = "none"
       /\ \E ids \in IdLists : BatchCallAdapters(ids)
       /\ UNCHANGED others
    \/ BatchConsumed /\ UNCHANGED others
    \/ \E kind \in PipelineKinds, ids \in IdLists :
          RunPipeline(kind, ids) /\ UNCHANGED <<observer, monitor>>
    \/ PipelineStep /\ UNCHANGED <<observer, monitor>>
    \/ PipelineConsumed /\ UNCHANGED <<observer, monitor>>

SpecPipeline == Init /\ [][NextPipeline]_vars

\* one caller at a time beside the health monitor, which the constructor
\* starts when healthCheck.enabled
InitMonitor ==
    /\ InitProgram(ConcurrentOverrides, ConcurrentArgs)
    /\ InitObserver
    /\ pipeline = NoPipeline
    /\ \E enabled \in BOOLEAN : monitor = ConstructMonitor(enabled)

NextMonitor ==
    \/ \E id \in CallerIds : CallAdapter(Caller, id) /\ UNCHANGED others
    \/ \E o \in ConcurrentOutcomes : FetchSettles(Caller, o) /\ UNCHANGED others
    \/ JsonSettles(Caller) /\ UNCHANGED others
    \/ Wake(Caller) /\ UNCHANGED others
    \/ Consume(Caller) /\ UNCHANGED others
    \/ StartHealthMonitoring /\ UNCHANGED observer
    \/ StopHealthMonitoring /\ UNCHANGED observer
    \/ HealthTick /\ UNCHANGED observer
    \/ CheckHealth /\ UNCHANGED observer

SpecMonitor == InitMonitor /\ [][NextMonitor]_vars

-----------------------------------------------------------------------------
(* The claims *)

ValidCall(c) == call[c].pc # "idle" /\ isValidAdapterId(call[c].adapterId)

\* an invocation of a valid id that ended after only retryable failures
Exhausted(c) == ValidCall(c) /\ call[c].pc = "returned" /\ call[c].allRetryable

\* C1: if the first attempt of a call ends with a status in 400..499 and
\* maxAttempts >= 1, the call makes exactly one attempt, never sleeps, and
\* resolves with a response whose status is "error"
C1_NoRetryOn4xx ==
    \A c \in Calls :
        (ValidCall(c) /\ call[c].first4xx /\ RetryConfig.maxAttempts >= 1)
        => /\ call[c].attempts = 1
           /\ call[c].sleeps = <<>>
           /\ call[c].pc = "returned"
           /\ call[c].result.status = "error"

C1_Witness ==
    /\ call[Caller].first4xx
    /\ call[Caller].pc = "returned"
    /\ RetryConfig.maxAttempts = 5

\* C2: a call of a valid id with maxAttempts >= 1 makes at least one and at
\* most maxAttempts attempts, and exactly maxAttempts when every attempt
\* failed with a retryable outcome, resolving with status "error"
C2_AttemptsBounded ==
    \A c \in Calls :
        (ValidCall(c) /\ RetryConfig.maxAttempts >= 1)
        => /\ call[c].attempts >= 1
           /\ call[c].attempts <= RetryConfig.maxAttempts
           /\ Exhausted(c) => /\ call[c].attempts = RetryConfig.maxAttempts
                              /\ call[c].result.status = "error"

C2_Witness ==
    /\ Exhausted(Caller)
    /\ call[Caller].attempts = 5
    /\ call[Caller].lastError = HttpError(call[Caller].adapterId,
                                          HttpResponse(500, "Internal Server Error",
                                                       "not_json"))

\* C3: a call with an id the registry does not know raises the validation
\* error, returns no response, and makes no attempt and no sleep
C3_InvalidIdRaises ==
    \A c \in Calls :
        (call[c].pc # "idle" /\ ~isValidAdapterId(call[c].adapterId))
        => /\ call[c].pc = "raised"
           /\ call[c].raised = <<"Invalid adapter ID: ", call[c].adapterId>>
           /\ call[c].result = NoResponse
           /\ call[c].attempts = 0
           /\ call[c].sleeps = <<>>

C3_Witness ==
    /\ call[Caller].adapterId = "not-a-real-adapter"
    /\ call[Caller].pc = "raised"

\* C4: a call of a valid id never raises; it ends with the body of a 2xx
\* response, or with a response whose status is "error" and whose error is a
\* non-empty string.  Only the validation error leaves callAdapter abnormally
C4_NeverRaises ==
    \A c \in Calls :
        /\ call[c].pc = "raised" => ~isValidAdapterId(call[c].adapterId)
        /\ (ValidCall(c) /\ call[c].pc = "returned")
           => \/ /\ call[c].fromBody
                 /\ JsonParse(call[c].body).parsed
                 /\ call[c].result = JsonParse(call[c].body).value
              \/ /\ ~call[c].fromBody
                 /\ call[c].result.status = "error"
                 /\ ~MessageIsEmpty(call[c].result.error)
                 /\ call[c].result.error # Absent

C4_Witness ==
    /\ ValidCall(Caller)
    /\ call[Caller].pc = "returned"
    /\ call[Caller].lastError = ParseError
    /\ call[Caller].attempts = 3
    /\ call[Caller].result.status = "error"

\* the configuration of the example: the defaults with maxAttempts = 5
ExampleConfig ==
    [maxAttempts |-> 5, baseDelay |-> 1000, maxDelay |-> 10000, backoffMultiplier |-> 2]

ExampleDelays == <<1000, 2000, 4000, 8000, 10000>>

\* every sleep of every call lasts min(baseDelay * backoffMultiplier^(k-1),
\* maxDelay) for the attempt k it follows, hence at most maxDelay
SleepsFollowFormula ==
    \A c \in Calls : \A k \in 1..Len(call[c].sleeps) :
        /\ call[c].sleeps[k] =
              Min(RetryConfig.baseDelay * Pow(RetryConfig.backoffMultiplier, k - 1),
                  RetryConfig.maxDelay)
        /\ call[c].sleeps[k] <= RetryConfig.maxDelay

\* C5 as stated: the sleeps follow the formula, and under the example's
\* configuration the retry delays of a call that exhausts its 5 attempts are
\* 1000, 2000, 4000, 8000, 10000
C5_FiveDelays ==
    /\ SleepsFollowFormula
    /\ \A c \in Calls :
          (RetryConfig = ExampleConfig /\ Exhausted(c))
          => call[c].sleeps = ExampleDelays

\* C5, amended: the sleeps follow the formula; under the example's
\* configuration the delay of attempt k = 1..5 is 1000, 2000, 4000, 8000,
\* 10000, and a call that exhausts its 5 attempts sleeps the first four of
\* them only: no sleep follows the last attempt
C5_DelaysCapped ==
    /\ SleepsFollowFormula
    /\ RetryConfig = ExampleConfig
       => /\ \A k \in 1..5 : getRetryDelay(k, RetryConfig) = ExampleDelays[k]
          /\ \A c \in Calls :
                Exhausted(c) => call[c].sleeps = SubSeq(ExampleDelays, 1, 4)

C5_Witness ==
    /\ RetryConfig = ExampleConfig
    /\ Exhausted(Caller)
    /\ Len(call[Caller].sleeps) = 4

\* C6: no attempt starts for an id while the breaker of that id is OPEN, and
\* a call that finds it OPEN is rejected
C6_NoAttemptWhileOpen ==
    \A c \in Calls :
        /\ ~gate[c].atAttempt
        /\ gate[c].atCall => call[c].pc = "raised"

\* C7: with a failure threshold of 3, a breaker that counted 3 consecutive
\* failed calls is OPEN with its lastFailureTime recorded, a call made to that
\* id within the cooldown makes no attempt, and a CLOSED breaker counts fewer
\* than 3 failures
C7_FourthCallFailsFast ==
    /\ \A id \in adapterRegistry :
          /\ circuit[id].failures >= failureThreshold
             => circuit[id].state # CircuitState.CLOSED
          /\ circuit[id].state = CircuitState.OPEN
             => circuit[id].lastFailureTime <= now
    /\ \A c \in Calls :
          (call[c].pc # "idle" /\ gate[c].atCall) => call[c].attempts = 0

\* the slots of the batch being awaited
BatchSlots == { c \in Calls : call[c].batchIdx # 0 }

\* C8: the array batchCallAdapters returns has the length of ids, and its
\* position i holds the outcome of the call for ids[i], whatever the order in
\* which the calls completed
C8_BatchOrder ==
    batch.state = "fulfilled"
    => /\ Len(batch.result) = Len(batch.ids)
       /\ \A i \in 1..Len(batch.ids) :
             /\ call[i].batchIdx = i
             /\ call[i].adapterId = batch.ids[i]
             /\ call[i].pc = "returned"
             /\ batch.result[i] = call[i].result

C8_Witness ==
    /\ batch.state = "fulfilled"
    /\ batch.order = <<2, 1>>
    /\ batch.result[1] # batch.result[2]
    /\ batch.ids[1] # batch.ids[2]

\* C9: the calls of a batch are independent: once they are all over, the
\* caller has received the result of every call that returned one, whatever
\* happened to its siblings
C9_SiblingsDelivered ==
    (batch.state # "none" /\ \A c \in BatchSlots : Settled(call[c]))
    => \A c \in BatchSlots :
          call[c].pc = "returned"
          => /\ batch.state = "fulfilled"
             /\ batch.result[call[c].batchIdx] = call[c].result

\* C10: no attempt outlasts the configured timeout
C10_AttemptBoundedByTimeout ==
    \A c \in Calls :
        InFlight(call[c]) => now - attemptStart[c] <= config.timeout

\* C11: the calls in flight to one id that were admitted while its breaker
\* was HALF_OPEN are at most one: after the cooldown one caller is the
\* trial, and a second caller arriving during the trial makes no attempt
C11_OneTrialInFlight ==
    \A id \in adapterRegistry :
        Cardinality({ c \in Calls : call[c].adapterId = id /\ gate[c].trial }) <= 1

\* the message of the failure an attempt of a call to `adapterId` observed
\* when the network answered o
FailureMessage(adapterId, o) ==
    IF o.kind = "reject" THEN <<"fetch failed">>
    ELSE IF o.status < 200 \/ o.status > 299
    THEN <<"Adapter ", adapterId, " failed: ", o.statusText>>
    ELSE <<"Unexpected token < in JSON">>

\* the answer to the last attempt the invocation made
LastObserved(c) == call[c].observed[Len(call[c].observed)]

\* an invocation of a valid id that made an attempt and ended without a
\* response of the adapter
Failed(c) ==
    /\ ValidCall(c)
    /\ call[c].pc = "returned"
    /\ ~call[c].fromBody
    /\ call[c].attempts >= 1

\* C12: when a call ends without a successful response, the error string it
\* returns is the message of the failure of the last attempt it made
C12_LastFailureReported ==
    \A c \in Calls :
        Failed(c) =>
            /\ Len(call[c].observed) = call[c].attempts
            /\ call[c].result.status = "error"
            /\ call[c].result.error = FailureMessage(call[c].adapterId, LastObserved(c))

\* a call failed three times, the last time otherwise than the first
C12_Witness ==
    /\ Failed(Caller)
    /\ call[Caller].attempts = 3
    /\ FailureMessage(call[Caller].adapterId, call[Caller].observed[1])
          # FailureMessage(call[Caller].adapterId, LastObserved(Caller))
    /\ call[Caller].result.error
          # FailureMessage(call[Caller].adapterId, call[Caller].observed[1])

\* the latest attempt of the invocation was answered, with a status outside
\* 200..299
AnsweredNon2xx(c) ==
    /\ ValidCall(c)
    /\ call[c].attempts >= 1
    /\ Len(call[c].observed) = call[c].attempts
    /\ LastObserved(c).kind = "response"
    /\ LastObserved(c).status < 200 \/ LastObserved(c).status > 299

\* C16: an attempt answered with a status outside 200..299 has failed
\* whatever its body holds: the body is not read and never returned, the
\* failure carries the status, and the status alone decides whether the
\* call retries
C16_Non2xxAlwaysFails ==
    \A c \in Calls :
        AnsweredNon2xx(c) =>
            LET o      == LastObserved(c)
                is4xx  == o.status >= 400 /\ o.status <= 499
                isLast == call[c].attempt >= RetryConfig.maxAttempts
            IN  /\ call[c].pc \in {"sleep", "returned"}
                /\ ~call[c].fromBody
                /\ call[c].lastError = HttpError(call[c].adapterId, o)
                /\ call[c].pc = "returned" <=> (is4xx \/ isLast)
                /\ call[c].pc = "returned" =>
                      /\ call[c].result = ErrorResponse(HttpError(call[c].adapterId, o))
                      /\ call[c].result # JsonParse(o.body).value

\* a 400 whose body is a well-formed AdapterResponse ended a call
C16_Witness ==
    /\ AnsweredNon2xx(Caller)
    /\ call[Caller].pc = "returned"
    /\ LastObserved(Caller).status = 400
    /\ JsonParse(LastObserved(Caller).body).parsed

\* the next step of invocation d can be taken
CanStep(d) ==
    /\ call[d].pc = "fetch" => \A o \in ConcurrentOutcomes : ENABLED FetchSettles(d, o)
    /\ call[d].pc = "json" => ENABLED JsonSettles(d)
    /\ call[d].pc = "sleep" => ENABLED Wake(d)

\* C17: a call sleeps the delay of attempt k after failed attempt k exactly
\* when attempt k+1 follows, so a call of n attempts has slept n-1 times and
\* never after its last attempt; while one call sleeps, every other call can
\* take its next step
C17_SleepsBetweenAttempts ==
    \A c \in Calls :
        ValidCall(c) /\ call[c].attempts >= 1 =>
            /\ \A k \in 1..Len(call[c].sleeps) :
                  call[c].sleeps[k] = getRetryDelay(k, RetryConfig)
            /\ call[c].pc \in {"fetch", "json", "returned"}
                  => Len(call[c].sleeps) = call[c].attempts - 1
            /\ call[c].pc = "sleep"
                  => /\ Len(call[c].sleeps) = call[c].attempts
                     /\ call[c].attempts < RetryConfig.maxAttempts
                     /\ \A d \in Calls \ {c} : CanStep(d)

\* one call sleeps while another, started beside it, is in its second attempt
C17_Witness ==
    \E c, d \in Calls :
        /\ c # d
        /\ ValidCall(c) /\ call[c].pc = "sleep"
        /\ ValidCall(d) /\ call[d].pc = "fetch" /\ call[d].attempts = 2
        /\ Len(call[d].sleeps) = 1

\* a 2xx answer
Is2xx(o) == o.kind = "response" /\ o.status >= 200 /\ o.status <= 299

\* C18: the first 2xx answer with a parseable body ends the call: that body
\* is returned unchanged, whatever its status field, and no attempt or sleep
\* follows it; a 2xx answer with an unparseable body is a retryable failure
C18_FirstParseableBodyReturned ==
    \A c \in Calls :
        ValidCall(c) =>
            /\ \A k \in 1..Len(call[c].observed) :
                  LET o == call[c].observed[k]
                  IN  Is2xx(o) /\ JsonParse(o.body).parsed =>
                         /\ k = call[c].attempts
                         /\ Len(call[c].sleeps) = k - 1
                         /\ call[c].pc \in {"json", "returned"}
                         /\ call[c].pc = "returned" =>
                               /\ call[c].fromBody
                               /\ call[c].result = JsonParse(o.body).value
            /\ call[c].fromBody =>
                  /\ Is2xx(LastObserved(c))
                  /\ JsonParse(LastObserved(c).body).parsed
            /\ ( /\ call[c].pc \in {"sleep", "returned"}
                 /\ call[c].attempts >= 1
                 /\ Is2xx(LastObserved(c))
                 /\ ~JsonParse(LastObserved(c).body).parsed )
               => /\ call[c].lastError = ParseError
                  /\ call[c].pc = "sleep" <=> call[c].attempt < RetryConfig.maxAttempts

\* after a 2xx answer that did not parse, the second attempt returned a body
\* whose status is "error"
C18_Witness ==
    /\ ValidCall(Caller)
    /\ call[Caller].pc = "returned"
    /\ call[Caller].fromBody
    /\ call[Caller].attempts = 2
    /\ call[Caller].attempt < RetryConfig.maxAttempts
    /\ Is2xx(call[Caller].observed[1])
    /\ call[Caller].result.status = "error"

\* C19: with maxAttempts <= 0 a call to a valid id attempts nothing on the
\* network and resolves with status "error" and the error string
\* "Unknown error occurred"
C19_NoAttemptsUnknownError ==
    \A c \in Calls :
        ValidCall(c) /\ RetryConfig.maxAttempts <= 0 =>
            /\ call[c].pc = "returned"
            /\ call[c].attempts = 0
            /\ call[c].sent = {}
            /\ call[c].sleeps = <<>>
            /\ call[c].result =
                  [status |-> "error", output |-> Absent, data |-> Absent,
                   error |-> <<"Unknown error occurred">>]

\* a call under a negative maxAttempts has resolved
C19_Witness ==
    /\ ValidCall(Caller)
    /\ RetryConfig.maxAttempts < 0
    /\ call[Caller].pc = "returned"
    /\ call[Caller].result.status = "error"

\* C13: in a sequential pipeline over [x, y, ...] a step invokes the next
\* adapter of the list only after every step before it answered without
\* status "error"; when the step for x answers status "error" the pipeline
\* has failed with x's error and no later adapter is invoked
C13_PipelineAbortsOnError ==
    LET p == pipeline
    IN  p.state # "none" =>
            /\ Len(p.invoked) = p.step
            /\ \A k \in 1..Len(p.invoked) : p.invoked[k] = p.ids[k]
            /\ \A k \in 1..Len(p.responses) :
                  p.responses[k].status = "error" =>
                      /\ k = Len(p.responses)
                      /\ Len(p.invoked) = k
                      /\ p.state = "failed"
                      /\ p.error = p.responses[k].error
                      /\ call[PipelineSlot].pc = "idle"
            /\ p.state = "running" =>
                  /\ Len(p.responses) = p.step - 1
                  /\ call[PipelineSlot].adapterId = p.ids[p.step]

\* x exhausted its attempts on network errors, y is valid and was not invoked
C13_Witness ==
    /\ pipeline.state = "failed"
    /\ Len(pipeline.ids) = 2
    /\ isValidAdapterId(pipeline.ids[2])
    /\ pipeline.invoked = <<pipeline.ids[1]>>
    /\ Len(pipeline.responses) = 1
    /\ pipeline.responses[1] = ErrorResponse(FetchError)
    /\ pipeline.error = FetchError.message

\* C14: no operation changes the caller's context object: while and after
\* callAdapter, batchCallAdapters or a pipeline runs, the object holds what
\* the caller passed, and every attempt of one call posts the same
\* adapterId, input and context
C14_ContextUntouched ==
    /\ \A c \in Calls :
          call[c].pc # "idle" =>
              /\ call[c].context = call[c].passed.context
              /\ call[c].input = call[c].passed.input
              /\ call[c].sent \subseteq
                    {Wire(call[c].adapterId, call[c].passed.input, call[c].passed.context)}
              /\ call[c].attempts >= 1 => call[c].sent # {}
              /\ pipeline.state = "none" =>
                    call[c].passed = [input |-> args.input, context |-> args.context]
    /\ pipeline.state # "none" => pipeline.callerContext = args.context

\* a call of a batch has resolved after two attempts, with a context of
\* one key
C14_Witness ==
    \E c \in Calls :
        /\ batch.state # "none"
        /\ call[c].batchIdx # 0
        /\ call[c].pc = "returned"
        /\ call[c].attempts = 2
        /\ call[c].passed.context = {<<"userId", "u1">>}
        /\ Cardinality(call[c].sent) = 1

\* C15: the recurring probe ticks only while monitoring is started, by
\* healthCheck.enabled at construction or by startHealthMonitoring;
\* stopHealthMonitoring changes nothing when monitoring was never started,
\* and after it no tick can occur until monitoring is started again
C15_ProbeOnlyWhileStarted ==
    /\ ~monitor.stray
    /\ monitor.timers > 0 => monitor.started
    /\ ~monitor.everStarted =>
          /\ monitor.timers = 0
          /\ ~monitor.handle
          /\ monitor.probes = 0
    /\ monitor.lastOp = "stop" => ~ENABLED HealthTick

\* monitoring ran, probed, and was stopped
C15_Witness ==
    /\ monitor.lastOp = "stop"
    /\ monitor.everStarted
    /\ monitor.probes >= 1
    /\ monitor.probes < MaxTicks

=============================================================================
